---- MODULE Spec2Model ----
(***************************************************************************)
(* Model of the notebook Tutorial_01.ipynb: a linear run of its code       *)
(* cells (extract bounds, list asset URLs from the STAC catalog, compute   *)
(* the raster window, read and concatenate the rasters into a datacube,    *)
(* configure the viewer, add the datacube to it).                          *)
(*                                                                         *)
(* Fractional pixel coordinates are kept in fixed point: a number n stands *)
(* for n / Sub pixels.  Geographic coordinates use the same unit, the      *)
(* raster's pixel size being Sub units.                                    *)
(***************************************************************************)
EXTENDS Integers, Sequences, FiniteSets, TLC

VARIABLES
    pc,          \* the cell (or loop position) the run is at
    drawn,       \* draw_control.data: the geometries drawn on the map
    bounds,      \* bounds = geometry.bounds, (minx, miny, maxx, maxy)
    catalog,     \* the collections the STAC catalog serves
    ci,          \* number of collections the catalog loop has gone through
    file_store,  \* file_store: the URLs of the rasters
    window,      \* window: None or a Window(col_off, row_off, width, height)
    stats,       \* stats: Statistics(min, max) of band 1
    first_run,   \* first_run flag of the assembly loop
    fi,          \* number of URLs the assembly loop has gone through
    datacube,    \* datacube: a sequence of time slices
    viewer,      \* the xcube Viewer: its ValueRange and its datasets
    opened,      \* history: the URLs the assembly loop has opened, in order
    calls,       \* history: number of calls made to each library function
    executed,    \* history: the cells that ran to completion, in order
    failure      \* history: the call that raised, if one has

vars == <<pc, drawn, bounds, catalog, ci, file_store, window, stats,
          first_run, fi, datacube, viewer, opened, calls, executed, failure>>

None == <<>>

NoFailure == "none"

----------------------------------------------------------------------------
(* Bounds of the model. *)

Sub == 2             \* fixed-point resolution: sub-pixel units per pixel
RasterW == 3         \* raster width in pixels
RasterH == 2         \* raster height in pixels
MaxFiles == 3        \* longest file_store of a whole run
MaxCollections == 2  \* most collections in the catalog of the catalog cell
MaxItems == 2        \* most items in a collection of the catalog cell

----------------------------------------------------------------------------
(* Strings.  A URL is a sequence of chunks: "_" is the underscore, a digit *)
(* of a date is a chunk of its own, any other chunk is underscore-free.    *)

DigitChar == <<"0", "1", "2", "3", "4", "5", "6", "7", "8", "9">>

DigitValue(c) == (CHOOSE d \in 1..10 : DigitChar[d] = c) - 1

RECURSIVE Digits(_, _)
Digits(n, width) ==
    IF width = 0 THEN <<>>
    ELSE Append(Digits(n \div 10, width - 1), DigitChar[(n % 10) + 1])

RECURSIVE ParseInt(_)
ParseInt(chars) ==
    IF chars = <<>> THEN 0
    ELSE 10 * ParseInt(SubSeq(chars, 1, Len(chars) - 1))
         + DigitValue(chars[Len(chars)])

DateChars(y, m, d) == Digits(y, 4) \o Digits(m, 2) \o Digits(d, 2)

(* A raster URL following the catalog's file naming convention, covering   *)
(* the period from (y1, m1, d1) to (y2, m2, d2).                           *)
RasterUrl(y1, m1, d1, y2, m2, d2) ==
    <<"https://s3.openlandmap.org/arco/wv", "_",
      "mcd19a2v061.seasconv.m.yearly", "_", "p75", "_", "1km", "_", "s", "_">>
    \o DateChars(y1, m1, d1) \o <<"_">> \o DateChars(y2, m2, d2)
    \o <<"_", "go", "_", "epsg.4326", "_", "v20230619.tif">>

YearUrl(y) == RasterUrl(y, 1, 1, y, 12, 31)

Years == 2000..2002

YearUrls == {YearUrl(y) : y \in Years}

HalfYearUrl == RasterUrl(2000, 1, 1, 2000, 6, 30)

TwoYearUrl == RasterUrl(2000, 1, 1, 2001, 12, 31)

DataUrls == YearUrls \cup {HalfYearUrl, TwoYearUrl}

ThumbnailUrl == <<"https://s3.openlandmap.org/arco/wv", "_", "preview.png">>

(* str.split('_') *)
RECURSIVE SplitFrom(_, _, _)
SplitFrom(s, cur, out) ==
    IF s = <<>> THEN Append(out, cur)
    ELSE IF Head(s) = "_" THEN SplitFrom(Tail(s), <<>>, Append(out, cur))
    ELSE SplitFrom(Tail(s), Append(cur, Head(s)), out)

split(s) == SplitFrom(s, <<>>, <<>>)

(* Python's 0-based s.split('_')[i] *)
Token(file_url, i) == split(file_url)[i + 1]

----------------------------------------------------------------------------
(* Dates *)

ParseDate(tok) ==
    [year  |-> ParseInt(SubSeq(tok, 1, 4)),
     month |-> ParseInt(SubSeq(tok, 5, 6)),
     day   |-> ParseInt(SubSeq(tok, 7, 8))]

Ordinal(date) == date.year * 10000 + date.month * 100 + date.day

YearEnd(y) == [year |-> y, month |-> 12, day |-> 31]

(* The labels [start, end] used as they are, instead of the year ends. *)
date_range_endpoints(start, end) == <<ParseDate(start), ParseDate(end)>>

(* pandas.date_range(start, end, freq='Y'): the year ends (31 December)    *)
(* lying in [start, end], in increasing order.                             *)
date_range(start, end) ==
    LET s == ParseDate(start)
        e == ParseDate(end)
        first == s.year
        last == IF e.month = 12 /\ e.day = 31 THEN e.year ELSE e.year - 1
    IN  IF last < first THEN <<>>
        ELSE [i \in 1..(last - first + 1) |-> YearEnd(first + i - 1)]

----------------------------------------------------------------------------
(* Geometry and raster window *)

Min(S) == CHOOSE m \in S : \A n \in S : m <= n

Max(S) == CHOOSE m \in S : \A n \in S : n <= m

(* The GeoJSON ring of a rectangle drawn on the map. *)
Rectangle(x1, y1, x2, y2) ==
    <<<<x1, y1>>, <<x1, y2>>, <<x2, y2>>, <<x2, y1>>, <<x1, y1>>>>

(* shape(geometry).bounds: (minx, miny, maxx, maxy) *)
GeometryBounds(ring) ==
    LET xs == {ring[i][1] : i \in DOMAIN ring}
        ys == {ring[i][2] : i \in DOMAIN ring}
    IN  <<Min(xs), Min(ys), Max(xs), Max(ys)>>

(* src.transform: a north-up raster whose upper-left corner is at          *)
(* (0, RasterH * Sub) and whose pixels are Sub units wide and high.  All   *)
(* rasters of the collection share this grid.                              *)
Transform == [x0 |-> 0, y0 |-> RasterH * Sub, res |-> Sub]

(* rasterio.windows.from_bounds(left, bottom, right, top, transform): the  *)
(* offsets and lengths in pixels, as fractions with denominator Sub.       *)
from_bounds(left, bottom, right, top, transform) ==
    [col_off |-> ((left - transform.x0) * Sub) \div transform.res,
     row_off |-> ((transform.y0 - top) * Sub) \div transform.res,
     width   |-> ((right - left) * Sub) \div transform.res,
     height  |-> ((top - bottom) * Sub) \div transform.res]

(* int(v) of the fraction n / Sub: truncation towards zero *)
Trunc(n) == IF n >= 0 THEN n \div Sub ELSE -((-n) \div Sub)

(* The stop computed as int(off) + int(len). *)
SliceStopOfParts(off, len) == Trunc(off) + Trunc(len)

(* int(window.col_off + window.width), int(window.row_off + window.height) *)
SliceStop(off, len) == Trunc(off + len)

(* The indices slice(start, stop) selects on an axis of length n. *)
SliceIndex(v, n) ==
    IF v < 0 THEN (IF v + n < 0 THEN 0 ELSE v + n)
    ELSE (IF v > n THEN n ELSE v)

PySlice(start, stop, n) ==
    {i \in 0..(n - 1) : SliceIndex(start, n) <= i /\ i < SliceIndex(stop, n)}

(* open_dataset(file_url, engine='rasterio'): the whole raster *)
open_dataset(file_url) ==
    [source |-> file_url, x |-> 0..(RasterW - 1), y |-> 0..(RasterH - 1)]

(* Dataset.isel(x=slice(..), y=slice(..)) *)
isel(d, x0, x1, y0, y1) ==
    [source |-> d.source,
     x |-> d.x \cap PySlice(x0, x1, RasterW),
     y |-> d.y \cap PySlice(y0, y1, RasterH)]

(* Dataset.expand_dims(time=labels): one time slice per label *)
expand_dims(d, labels) ==
    [i \in 1..Len(labels) |->
        [time |-> labels[i], source |-> d.source, x |-> d.x, y |-> d.y]]

read_raster(file_url, win) ==
    LET d == IF win # None
             THEN isel(open_dataset(file_url),
                       Trunc(win.col_off),
                       SliceStop(win.col_off, win.width),
                       Trunc(win.row_off),
                       SliceStop(win.row_off, win.height))
             ELSE open_dataset(file_url)
    IN  expand_dims(d, date_range(Token(file_url, 5), Token(file_url, 6)))

(* The datacube replaced by the new dataset. *)
concat_replace(a, b) == b

(* xarray.concat([a, b], dim='time') *)
concat(a, b) == a \o b

(* src.statistics(1): the band-1 statistics stored in the raster file;     *)
(* every file has its own.                                                 *)
statistics(file_url) ==
    LET s == ParseDate(Token(file_url, 5))
        e == ParseDate(Token(file_url, 6))
    IN  [min |-> 20 + (s.year % 100), max |-> 6900 + 10 * (e.year % 100) + e.month]

(* The last file of file_store. *)
StatsFileLast(store) == store[Len(store)]

(* file_store[0], the file the window cell opens *)
StatsFile(store) == store[1]

----------------------------------------------------------------------------
(* The catalog *)

target_collection == "wv_mcd19a2v061.seasconv.m.yearly"

target_item == "wv_mcd19a2v061.seasconv.m.yearly_p75_1km_s"

other_collection == "lc_glad.glcluc"

Asset(key, href) == [key |-> key, href |-> href]

(* Every asset key taken as a match. *)
KeyMatchesAny(key) == TRUE

(* key == target_item *)
KeyMatches(key) == key = target_item

(* The hrefs one item appends to file_store: the inner loop over the keys  *)
(* of item.to_dict()['assets'], in the order of the dictionary.            *)
RECURSIVE ItemHrefs(_)
ItemHrefs(assets) ==
    IF assets = <<>> THEN <<>>
    ELSE (IF KeyMatches(Head(assets).key) THEN <<Head(assets).href>> ELSE <<>>)
         \o ItemHrefs(Tail(assets))

RECURSIVE ItemsHrefs(_)
ItemsHrefs(items) ==
    IF items = <<>> THEN <<>>
    ELSE ItemHrefs(Head(items)) \o ItemsHrefs(Tail(items))

(* What one iteration of the outer loop appends to file_store. *)
CollectionHrefs(collection) ==
    IF collection.id = target_collection THEN ItemsHrefs(collection.items)
    ELSE <<>>

(* Library calls of one iteration of the outer loop that gets through the  *)
(* first k items: get_all_items once for a matching collection, to_dict    *)
(* once per item for the keys and once more per matching key.              *)
RECURSIVE ToDictCalls(_)
ToDictCalls(items) ==
    IF items = <<>> THEN 0
    ELSE 1 + Len(ItemHrefs(Head(items))) + ToDictCalls(Tail(items))

----------------------------------------------------------------------------
(* Inputs *)

SeqsUpTo(S, n) == UNION {[1..k -> S] : k \in 0..n}

Injective(s) == \A i, j \in DOMAIN s : s[i] = s[j] => i = j

(* Coordinates a rectangle can be drawn at: the raster's extent and one    *)
(* pixel around it, at sub-pixel resolution.                               *)
GeoX == (-Sub)..((RasterW + 1) * Sub)

GeoY == (-Sub)..((RasterH + 1) * Sub)

Rectangles(xs, ys) ==
    {Rectangle(x1, y1, x2, y2) :
        <<x1, y1, x2, y2>> \in
            {b \in xs \X ys \X xs \X ys : b[1] <= b[3] /\ b[2] <= b[4]}}

(* The rectangles of a whole run: corners on and off the pixel grid,       *)
(* inside the raster and past its right and bottom edge.                   *)
RunRectangles ==
    Rectangles({0, 1, Sub + 1, RasterW * Sub + 1}, {-1, 1, RasterH * Sub})

(* The catalogs of a whole run: the target collection, each of its items   *)
(* holding one raster file of its own under the target key, alone or after *)
(* another collection.                                                     *)
RunCatalogs ==
    {before \o
     <<[id |-> target_collection,
        items |-> [i \in DOMAIN urls |-> <<Asset(target_item, urls[i])>>]]>> :
        urls \in {s \in SeqsUpTo(DataUrls, MaxFiles) : Injective(s)},
        before \in {<<>>,
                    <<[id |-> other_collection,
                       items |-> <<<<Asset(target_item, YearUrl(2000))>>>>]>>}}

(* The catalogs of the catalog cell: collections with and without the      *)
(* target id, items with and without the target key.                       *)
CellItems ==
    {<<Asset(target_item, YearUrl(2000))>>,
     <<Asset("thumbnail", ThumbnailUrl)>>,
     <<Asset("thumbnail", ThumbnailUrl), Asset(target_item, YearUrl(2001))>>}

CellCollections ==
    {[id |-> id, items |-> items] :
        id \in {target_collection, other_collection},
        items \in SeqsUpTo(CellItems, MaxItems)}

CellCatalogs == SeqsUpTo(CellCollections, MaxCollections)

LibraryCalls ==
    {"Client.open", "get_collections", "get_all_items", "to_dict",
     "rasterio.open", "from_bounds", "statistics",
     "open_dataset", "isel", "date_range", "expand_dims", "concat",
     "Viewer", "add_dataset", "show"}

(* The counters after n more calls of the library function f. *)
Called(c, f, n) == [c EXCEPT ![f] = @ + n]

----------------------------------------------------------------------------
(* A raised exception: no cell catches it, the run stops. *)

(* The exception caught and the run carrying on. *)
Swallow(next) == next

Propagate(next) == "error"

(* The loop leaving out the last element. *)
HasNextButLast(i, store) == i < Len(store) - 1

(* for f in file_store: is there an element left after i iterations *)
HasNext(i, store) == i < Len(store)

(* first_run left as it is. *)
AfterFirstRunKept == TRUE

(* first_run = False *)
AfterFirstRun == FALSE

----------------------------------------------------------------------------
(* State before the first cell runs.  A name the notebook has not bound    *)
(* yet holds a placeholder of its type.                                    *)

InitNames ==
    /\ bounds = <<0, 0, 0, 0>>
    /\ ci = 0
    /\ file_store = <<>>
    /\ window = None
    /\ stats = [min |-> 0, max |-> 0]
    /\ first_run = FALSE
    /\ fi = 0
    /\ datacube = <<>>
    /\ viewer = [ValueRange |-> <<0, 0>>, datasets |-> <<>>]
    /\ opened = <<>>
    /\ calls = [f \in LibraryCalls |-> 0]
    /\ executed = <<>>
    /\ failure = NoFailure

Init ==
    /\ pc = "bounds"
    /\ drawn \in {<<>>} \cup {<<r>> : r \in RunRectangles}
    /\ catalog \in RunCatalogs
    /\ InitNames

----------------------------------------------------------------------------
(* The cells *)

(* geometry = shape(draw_control.data[-1]['geometry']); bounds = ...       *)
ExtractBounds ==
    /\ pc = "bounds"
    /\ IF drawn = <<>>
       THEN /\ pc' = Propagate("catalog_open")
            /\ failure' = "draw_control.data[-1]"
            /\ UNCHANGED <<bounds, executed>>
       ELSE /\ bounds' = GeometryBounds(drawn[Len(drawn)])
            /\ pc' = "catalog_open"
            /\ executed' = Append(executed, "bounds")
            /\ UNCHANGED failure
    /\ UNCHANGED <<drawn, catalog, ci, file_store, window, stats, first_run,
                   fi, datacube, viewer, opened, calls>>

(* file_store = []; catalog = Client.open(catalog_url); the for statement  *)
(* calls catalog.get_collections()                                         *)
CatalogOpen ==
    /\ pc = "catalog_open"
    /\ file_store' = <<>>
    /\ ci' = 0
    /\ \E ok \in BOOLEAN :
        IF ok
        THEN /\ calls' = Called(Called(calls, "Client.open", 1),
                                "get_collections", 1)
             /\ pc' = "catalog_loop"
             /\ UNCHANGED failure
        ELSE /\ calls' = Called(calls, "Client.open", 1)
             /\ pc' = Propagate("catalog_loop")
             /\ failure' = "Client.open"
    /\ UNCHANGED <<drawn, bounds, catalog, window, stats, first_run, fi,
                   datacube, viewer, opened, executed>>

(* One iteration of `for collection in catalog.get_collections()`, with    *)
(* its inner loops.  When fetching the items raises after k items, the     *)
(* hrefs of these k items have been appended.                              *)
CatalogCollection ==
    /\ pc = "catalog_loop"
    /\ ci < Len(catalog)
    /\ LET collection == catalog[ci + 1]
           matches == collection.id = target_collection
       IN  \/ /\ file_store' = file_store \o CollectionHrefs(collection)
              /\ calls' = IF matches
                          THEN Called(Called(calls, "get_all_items", 1),
                                      "to_dict", ToDictCalls(collection.items))
                          ELSE calls
              /\ ci' = ci + 1
              /\ pc' = "catalog_loop"
              /\ UNCHANGED failure
           \/ /\ matches
              /\ \E k \in 0..(Len(collection.items) - 1) :
                    LET got == SubSeq(collection.items, 1, k)
                    IN  /\ file_store' = file_store \o ItemsHrefs(got)
                        /\ calls' = Called(Called(calls, "get_all_items", 1),
                                           "to_dict", ToDictCalls(got))
              /\ pc' = Propagate("catalog_loop")
              /\ failure' = "get_all_items"
              /\ UNCHANGED ci
    /\ UNCHANGED <<drawn, bounds, catalog, window, stats, first_run, fi,
                   datacube, viewer, opened, executed>>

(* The catalog loop has gone through every collection. *)
CatalogEnd ==
    /\ pc = "catalog_loop"
    /\ ci = Len(catalog)
    /\ pc' = "window"
    /\ executed' = Append(executed, "catalog")
    /\ UNCHANGED <<drawn, bounds, catalog, ci, file_store, window, stats,
                   first_run, fi, datacube, viewer, opened, calls, failure>>

(* with rasterio.open(file_store[0]) as src: window = ...; stats = ...     *)
ComputeWindow ==
    /\ pc = "window"
    /\ IF file_store = <<>>
       THEN /\ pc' = Propagate("assemble")
            /\ failure' = "file_store[0]"
            /\ UNCHANGED <<window, stats, calls, executed>>
       ELSE \E ok \in BOOLEAN :
            IF ok
            THEN /\ window' = from_bounds(bounds[1], bounds[2], bounds[3],
                                          bounds[4], Transform)
                 /\ stats' = statistics(StatsFile(file_store))
                 /\ calls' = Called(Called(Called(calls, "rasterio.open", 1),
                                           "from_bounds", 1), "statistics", 1)
                 /\ pc' = "assemble"
                 /\ executed' = Append(executed, "window")
                 /\ UNCHANGED failure
            ELSE /\ calls' = Called(calls, "rasterio.open", 1)
                 /\ pc' = Propagate("assemble")
                 /\ failure' = "rasterio.open"
                 /\ UNCHANGED <<window, stats, executed>>
    /\ UNCHANGED <<drawn, bounds, catalog, ci, file_store, first_run, fi,
                   datacube, viewer, opened>>

(* first_run = True, and the for statement starts *)
AssembleStart ==
    /\ pc = "assemble"
    /\ first_run' = TRUE
    /\ fi' = 0
    /\ pc' = "assemble_loop"
    /\ UNCHANGED <<drawn, bounds, catalog, ci, file_store, window, stats,
                   datacube, viewer, opened, calls, executed, failure>>

(* The library calls of one read_raster(f, window) that returns. *)
ReadCalls(c) ==
    Called(Called(Called(Called(c, "open_dataset", 1),
                         "isel", IF window # None THEN 1 ELSE 0),
                  "date_range", 1), "expand_dims", 1)

(* One iteration of `for f in file_store` *)
AssembleStep ==
    /\ pc = "assemble_loop"
    /\ HasNext(fi, file_store)
    /\ LET f == file_store[fi + 1]
       IN  /\ opened' = Append(opened, f)
           /\ \/ /\ IF first_run
                    THEN /\ datacube' = read_raster(f, window)
                         /\ first_run' = AfterFirstRun
                         /\ calls' = ReadCalls(calls)
                    ELSE /\ datacube' = concat(datacube, read_raster(f, window))
                         /\ calls' = Called(ReadCalls(calls), "concat", 1)
                         /\ UNCHANGED first_run
                 /\ fi' = fi + 1
                 /\ pc' = "assemble_loop"
                 /\ UNCHANGED failure
              \/ /\ calls' = Called(calls, "open_dataset", 1)
                 /\ pc' = Propagate("assemble_loop")
                 /\ failure' = "open_dataset"
                 /\ UNCHANGED <<datacube, first_run, fi>>
              \/ /\ ~first_run
                 /\ calls' = Called(ReadCalls(calls), "concat", 1)
                 /\ pc' = Propagate("assemble_loop")
                 /\ failure' = "concat"
                 /\ UNCHANGED <<datacube, first_run, fi>>
    /\ UNCHANGED <<drawn, bounds, catalog, ci, file_store, window, stats,
                   viewer, executed>>

(* The assembly loop has gone through file_store. *)
AssembleEnd ==
    /\ pc = "assemble_loop"
    /\ ~HasNext(fi, file_store)
    /\ pc' = "viewer"
    /\ executed' = Append(executed, "assemble")
    /\ UNCHANGED <<drawn, bounds, catalog, ci, file_store, window, stats,
                   first_run, fi, datacube, viewer, opened, calls, failure>>

(* viewer = Viewer(server_config = {...}) *)
ViewerConfig ==
    /\ pc = "viewer"
    /\ calls' = Called(calls, "Viewer", 1)
    /\ \E ok \in BOOLEAN :
        IF ok
        THEN /\ viewer' = [ValueRange |-> <<stats.min, stats.max>>,
                           datasets |-> <<>>]
             /\ pc' = "add_dataset"
             /\ executed' = Append(executed, "viewer")
             /\ UNCHANGED failure
        ELSE /\ pc' = Propagate("add_dataset")
             /\ failure' = "Viewer"
             /\ UNCHANGED <<viewer, executed>>
    /\ UNCHANGED <<drawn, bounds, catalog, ci, file_store, window, stats,
                   first_run, fi, datacube, opened>>

(* viewer.add_dataset(datacube, style='mydata'); viewer.show() *)
AddDataset ==
    /\ pc = "add_dataset"
    /\ \E ok \in BOOLEAN :
        IF ok
        THEN /\ viewer' = [viewer EXCEPT !.datasets = Append(@, datacube)]
             /\ calls' = Called(Called(calls, "add_dataset", 1), "show", 1)
             /\ pc' = "done"
             /\ executed' = Append(executed, "add_dataset")
             /\ UNCHANGED failure
        ELSE /\ calls' = Called(calls, "add_dataset", 1)
             /\ pc' = Propagate("done")
             /\ failure' = "add_dataset"
             /\ UNCHANGED <<viewer, executed>>
    /\ UNCHANGED <<drawn, bounds, catalog, ci, file_store, window, stats,
                   first_run, fi, datacube, opened>>

Next ==
    \/ ExtractBounds
    \/ CatalogOpen
    \/ CatalogCollection
    \/ CatalogEnd
    \/ ComputeWindow
    \/ AssembleStart
    \/ AssembleStep
    \/ AssembleEnd
    \/ ViewerConfig
    \/ AddDataset

Spec == Init /\ [][Next]_vars

----------------------------------------------------------------------------
(* The catalog cell on its own, over catalogs of every shape. *)

InitCatalog ==
    /\ pc = "catalog_open"
    /\ drawn = <<>>
    /\ catalog \in CellCatalogs
    /\ InitNames

NextCatalog ==
    \/ CatalogOpen
    \/ CatalogCollection
    \/ CatalogEnd

SpecCatalog == InitCatalog /\ [][NextCatalog]_vars

----------------------------------------------------------------------------
(* read_raster on its own, over every window and URL. *)

InitRead ==
    /\ pc = "read_raster"
    /\ drawn \in {<<r>> : r \in Rectangles(GeoX, GeoY)}
    /\ catalog = <<>>
    /\ \E u \in DataUrls, given \in BOOLEAN :
        /\ file_store = <<u>>
        /\ bounds = GeometryBounds(drawn[1])
        /\ window = IF given
                    THEN from_bounds(bounds[1], bounds[2], bounds[3],
                                     bounds[4], Transform)
                    ELSE None
    /\ ci = 0
    /\ stats = [min |-> 0, max |-> 0]
    /\ first_run = FALSE
    /\ fi = 0
    /\ datacube = <<>>
    /\ viewer = [ValueRange |-> <<0, 0>>, datasets |-> <<>>]
    /\ opened = <<>>
    /\ calls = [f \in LibraryCalls |-> 0]
    /\ executed = <<>>
    /\ failure = NoFailure

(* datacube = read_raster(file_store[0], window) *)
ReadRasterCall ==
    /\ pc = "read_raster"
    /\ datacube' = read_raster(file_store[1], window)
    /\ calls' = ReadCalls(calls)
    /\ pc' = "returned"
    /\ UNCHANGED <<drawn, bounds, catalog, ci, file_store, window, stats,
                   first_run, fi, viewer, opened, executed, failure>>

NextRead == ReadRasterCall

SpecRead == InitRead /\ [][NextRead]_vars

----------------------------------------------------------------------------
(* Properties *)

Range(s) == {s[i] : i \in DOMAIN s}

IsPrefix(s, t) == Len(s) <= Len(t) /\ s = SubSeq(t, 1, Len(s))

CellOrder == <<"bounds", "catalog", "window", "assemble", "viewer", "add_dataset">>

RECURSIVE Flatten(_)
Flatten(ss) == IF ss = <<>> THEN <<>> ELSE Head(ss) \o Flatten(Tail(ss))

(* Every asset of the catalog with the id of its collection, in the order  *)
(* the catalog is gone through.                                            *)
CatalogAssets(cat) ==
    Flatten([c \in DOMAIN cat |->
        Flatten([i \in DOMAIN cat[c].items |->
            [a \in DOMAIN cat[c].items[i] |->
                [id |-> cat[c].id,
                 key |-> cat[c].items[i][a].key,
                 href |-> cat[c].items[i][a].href]]])])

IsTargetAsset(r) == r.id = target_collection /\ r.key = target_item

MatchingHrefs(cat) ==
    LET sel == SelectSeq(CatalogAssets(cat), IsTargetAsset)
    IN  [i \in DOMAIN sel |-> sel[i].href]

(* read_raster of the first k URLs of file_store, stacked in order *)
RECURSIVE Stack(_)
Stack(k) ==
    IF k = 0 THEN <<>>
    ELSE Stack(k - 1) \o read_raster(file_store[k], window)

InLoopOrAfter == pc \in {"assemble_loop", "viewer", "add_dataset", "done"}

AfterLoop == pc \in {"viewer", "add_dataset", "done"}

(* C1: the cells run in one fixed order, each at most once; add_dataset is *)
(* reached only after every URL of file_store has been read and            *)
(* concatenated, in order; the window is computed only after the catalog   *)
(* loop has gone through the whole catalog and file_store is complete.     *)
C1_FixedOrder ==
    /\ IsPrefix(executed, CellOrder)
    /\ calls["add_dataset"] <= 1
    /\ calls["add_dataset"] > 0 =>
          /\ opened = file_store
          /\ fi = Len(file_store)
          /\ datacube = Stack(Len(file_store))
    /\ calls["from_bounds"] > 0 =>
          /\ ci = Len(catalog)
          /\ file_store = MatchingHrefs(catalog)

C1_Witness ==
    /\ pc = "done"
    /\ executed = CellOrder
    /\ Len(file_store) >= 2

(* C2: in the assembly loop and after it, before the first iteration       *)
(* first_run is True; after k >= 1 iterations first_run is False, the URLs *)
(* opened are the first k of file_store in order, and datacube is the      *)
(* stack of their read_raster results in that order; after the loop k is   *)
(* the length of file_store.                                               *)
C2_TimeStack ==
    /\ InLoopOrAfter =>
          /\ opened = SubSeq(file_store, 1, fi)
          /\ IF fi = 0 THEN first_run = TRUE
             ELSE first_run = FALSE /\ datacube = Stack(fi)
    /\ AfterLoop => fi = Len(file_store)

C2_Witness ==
    /\ pc = "viewer"
    /\ fi >= 2
    /\ Len(datacube) >= 2

(* C3: when every URL of file_store is a one-year file YYYY0101_YYYY1231,  *)
(* after the loop the datacube has one time step per URL, the i-th         *)
(* labelled with a date of the year of the i-th URL, and the labels are    *)
(* strictly increasing when the years of file_store are.                   *)
C3_OneStepPerYear ==
    (AfterLoop /\ \A i \in DOMAIN file_store : file_store[i] \in YearUrls) =>
        /\ Len(datacube) = Len(file_store)
        /\ \A i \in DOMAIN file_store :
              \E y \in Years :
                  /\ file_store[i] = YearUrl(y)
                  /\ datacube[i].source = file_store[i]
                  /\ datacube[i].time.year = y
        /\ (\A i, j \in DOMAIN file_store :
               i < j => \E y, z \in Years :
                   y < z /\ file_store[i] = YearUrl(y) /\ file_store[j] = YearUrl(z))
           => \A i, j \in DOMAIN datacube :
                  i < j => Ordinal(datacube[i].time) < Ordinal(datacube[j].time)

C3_Witness ==
    /\ pc = "viewer"
    /\ file_store = <<YearUrl(2000), YearUrl(2001), YearUrl(2002)>>
    /\ Len(datacube) = 3

CatalogStepCalls == calls["get_collections"] + calls["get_all_items"] + calls["to_dict"]

AssemblyStepCalls ==
    calls["open_dataset"] + calls["isel"] + calls["date_range"]
    + calls["expand_dims"] + calls["concat"]

(* C5 as stated: the catalog-listing step and the read-and-concatenate     *)
(* step each make exactly one library call in a run.                       *)
C5_SingleCall ==
    /\ "catalog" \in Range(executed) => CatalogStepCalls = 1
    /\ "assemble" \in Range(executed) => AssemblyStepCalls = 1

MatchingCollections == {c \in DOMAIN catalog : catalog[c].id = target_collection}

(* C5 amended: the two steps are loops of the notebook.  The catalog step  *)
(* calls get_collections once, get_all_items once per collection whose id  *)
(* is target_collection and to_dict once per item of these plus once per   *)
(* appended href; the assembly step calls open_dataset once per URL of     *)
(* file_store and concat once per URL but the first.                       *)
C5_CallsPerStep ==
    /\ "catalog" \in Range(executed) =>
          /\ calls["get_collections"] = 1
          /\ calls["get_all_items"] = Cardinality(MatchingCollections)
          /\ calls["to_dict"] =
                Len(Flatten([c \in DOMAIN catalog |->
                       IF c \in MatchingCollections THEN catalog[c].items
                       ELSE <<>>]))
                + Len(file_store)
    /\ "assemble" \in Range(executed) =>
          /\ calls["open_dataset"] = Len(file_store)
          /\ calls["concat"] = Len(file_store) - 1

C5_Witness ==
    /\ pc = "done"
    /\ Len(catalog) = 2
    /\ calls["concat"] >= 1

(* C6: while the catalog loop runs, file_store holds only hrefs of assets   *)
(* under the target key in collections with the target id, in catalog      *)
(* order; once the loop is over, file_store is exactly the sequence of     *)
(* these hrefs, one per matching (item, asset) pair, empty when none.      *)
C6_MatchingAssets ==
    /\ IsPrefix(file_store, MatchingHrefs(catalog))
    /\ pc = "window" => file_store = MatchingHrefs(catalog)

C6_Witness ==
    /\ pc = "window"
    /\ Len(file_store) >= 2
    /\ \E c \in DOMAIN catalog :
          /\ catalog[c].id = other_collection
          /\ catalog[c].items # <<>>
    /\ \E c \in DOMAIN catalog :
          /\ catalog[c].id = target_collection
          /\ \E i \in DOMAIN catalog[c].items : Len(catalog[c].items[i]) = 2

NonNegative(w) ==
    w.col_off >= 0 /\ w.row_off >= 0 /\ w.width >= 0 /\ w.height >= 0

InsideRaster(w) ==
    /\ NonNegative(w)
    /\ w.col_off + w.width <= RasterW * Sub
    /\ w.row_off + w.height <= RasterH * Sub

(* Pixel i, of extent [i, i + 1), meets the interval [off, off + len). *)
Meets(i, off, len) == len > 0 /\ i * Sub < off + len /\ off < (i + 1) * Sub

(* C7 as stated: for a window inside the raster, the index range           *)
(* read_raster selects contains every pixel column and row whose extent    *)
(* meets the window, the partly covered ones on the right and bottom edge  *)
(* included.                                                               *)
C7_CoversWindow ==
    (pc = "returned" /\ window # None /\ InsideRaster(window)) =>
        \A t \in DOMAIN datacube :
            /\ \A i \in 0..(RasterW - 1) :
                  Meets(i, window.col_off, window.width) => i \in datacube[t].x
            /\ \A i \in 0..(RasterH - 1) :
                  Meets(i, window.row_off, window.height) => i \in datacube[t].y

(* C8 as stated: for a window with non-negative offsets and lengths the    *)
(* selected columns are exactly trunc(col_off) .. trunc(col_off+width)-1,  *)
(* rows likewise, and their number is floor(width) or floor(width)+1.      *)
C8_ExactRange ==
    (pc = "returned" /\ window # None /\ NonNegative(window)) =>
        \A t \in DOMAIN datacube :
            /\ datacube[t].x =
                  (window.col_off \div Sub)..
                      (((window.col_off + window.width) \div Sub) - 1)
            /\ datacube[t].y =
                  (window.row_off \div Sub)..
                      (((window.row_off + window.height) \div Sub) - 1)
            /\ Cardinality(datacube[t].x) \in
                  {window.width \div Sub, (window.width \div Sub) + 1}

(* Pixel i lies in the raster, starts at or after the pixel holding off    *)
(* and ends at or before off + len.                                        *)
Within(i, n, off, len) ==
    i \in 0..(n - 1) /\ off < (i + 1) * Sub /\ (i + 1) * Sub <= off + len

(* C8 amended: for a window with non-negative offsets and lengths the      *)
(* selected columns are exactly the columns of the raster among            *)
(* trunc(col_off) .. trunc(col_off+width)-1, rows likewise; every selected *)
(* pixel meets the window; when the window lies inside the raster the      *)
(* number of selected columns is floor(width) or floor(width)+1, rows      *)
(* likewise.  With window=None the whole raster is returned.               *)
C8_RangeInRaster ==
    pc = "returned" =>
        \A t \in DOMAIN datacube :
            IF window = None
            THEN /\ datacube[t].x = 0..(RasterW - 1)
                 /\ datacube[t].y = 0..(RasterH - 1)
            ELSE NonNegative(window) =>
                 /\ datacube[t].x =
                       {i \in 0..(RasterW - 1) :
                           Within(i, RasterW, window.col_off, window.width)}
                 /\ datacube[t].y =
                       {i \in 0..(RasterH - 1) :
                           Within(i, RasterH, window.row_off, window.height)}
                 /\ \A i \in datacube[t].x :
                       Meets(i, window.col_off, window.width)
                 /\ \A i \in datacube[t].y :
                       Meets(i, window.row_off, window.height)
                 /\ InsideRaster(window) =>
                       /\ Cardinality(datacube[t].x) \in
                             {window.width \div Sub, (window.width \div Sub) + 1}
                       /\ Cardinality(datacube[t].y) \in
                             {window.height \div Sub, (window.height \div Sub) + 1}

C8_Witness ==
    /\ pc = "returned"
    /\ window # None
    /\ InsideRaster(window)
    /\ window.col_off % Sub # 0
    /\ window.width % Sub # 0
    /\ datacube # <<>>
    /\ Cardinality(datacube[1].x) = (window.width \div Sub) + 1

(* C9: window and stats are computed once; from then on window is the      *)
(* window of the drawn bounds and stats the statistics of file_store[0];   *)
(* all time slices of the datacube have the same x and y index range; the  *)
(* viewer's ValueRange is [min, max] of the first file.                    *)
C9_WindowAndStatsFixed ==
    /\ calls["from_bounds"] <= 1
    /\ calls["statistics"] <= 1
    /\ calls["from_bounds"] = 1 =>
          /\ window = [col_off |-> bounds[1],
                       row_off |-> RasterH * Sub - bounds[4],
                       width   |-> bounds[3] - bounds[1],
                       height  |-> bounds[4] - bounds[2]]
          /\ stats = statistics(file_store[1])
          /\ \A t \in DOMAIN datacube :
                /\ datacube[t].x = datacube[1].x
                /\ datacube[t].y = datacube[1].y
    /\ "viewer" \in Range(executed) =>
          viewer.ValueRange =
              <<statistics(file_store[1]).min, statistics(file_store[1]).max>>

C9_Witness ==
    /\ pc = "done"
    /\ Len(file_store) >= 2
    /\ Len(datacube) >= 2
    /\ statistics(file_store[1]) # statistics(file_store[Len(file_store)])
    /\ viewer.ValueRange # <<0, 0>>

====
